---- MODULE Spec2Model ----
(***************************************************************************)
(* Model of the dual-number type generated by make_dual! (src/src/lib.rs), *)
(* instantiated as sample::SampleXYZ (axes x, y, z over f64).              *)
(*                                                                         *)
(* Scalars.  An f64 is modelled as a pair <<n, d>>:                        *)
(*   d > 0  : the finite value n/d, in lowest terms;                       *)
(*   <<1,0>>: +infinity,  <<-1,0>>: -infinity,  <<0,0>>: NaN.              *)
(* Arithmetic on finite values is exact (rounding and overflow of f64 are  *)
(* not modelled); the non-finite values follow IEEE 754.  Zero is unsigned *)
(* (-0.0 == 0.0 in Rust), and 1/0 is +infinity.                            *)
(***************************************************************************)
EXTENDS Integers, FiniteSets, Sequences, TLC

\* ------------------------------------------------------------------ bounds
\* Integer scalar inputs range over -MaxIn .. MaxIn.
MaxIn == 2
\* Exponents passed to powf range over -MaxExp .. MaxExp.
MaxExp == 2
\* An expression is built by at most MaxDepth operations.
MaxDepth == 2
\* An operation is applied to a value built only while its finite components
\* are integers n/d with |n| <= MaxMag and d <= MaxMag.
MaxMag == 100

\* ----------------------------------------------------------------- scalars
Abs(i) == IF i < 0 THEN -i ELSE i

Sign(i) == IF i < 0 THEN -1 ELSE IF i > 0 THEN 1 ELSE 0

RECURSIVE Gcd(_, _)
Gcd(i, j) == IF j = 0 THEN i ELSE Gcd(j, i % j)

\* The f64 with value n/d (d >= 0), d = 0 giving +-infinity or NaN.
Norm(n, d) ==
    IF d = 0 THEN <<Sign(n), 0>>
    ELSE LET g == Gcd(Abs(n), d) IN <<n \div g, d \div g>>

IntS(i) == <<i, 1>>
Zero == IntS(0)
One == IntS(1)
PInf == <<1, 0>>
NInf == <<-1, 0>>
NaN == <<0, 0>>

IsNaN(a) == a = NaN
IsInf(a) == a[2] = 0 /\ a[1] # 0
IsFinite(a) == a[2] > 0

\* f64 negation
SNeg(a) == <<-a[1], a[2]>>

\* f64 addition: inf + (-inf) = NaN, NaN is absorbing
SAdd(a, b) ==
    IF IsNaN(a) \/ IsNaN(b) THEN NaN
    ELSE IF IsInf(a) /\ IsInf(b) THEN (IF a = b THEN a ELSE NaN)
    ELSE IF IsInf(a) THEN a
    ELSE IF IsInf(b) THEN b
    ELSE Norm(a[1] * b[2] + b[1] * a[2], a[2] * b[2])

\* f64 subtraction
SSub(a, b) == SAdd(a, SNeg(b))

\* f64 multiplication: 0 * inf = NaN, NaN is absorbing
SMul(a, b) == Norm(a[1] * b[1], a[2] * b[2])

\* 1. / a
SRecip(a) ==
    IF IsNaN(a) THEN NaN
    ELSE IF IsInf(a) THEN Zero
    ELSE IF a[1] = 0 THEN PInf
    ELSE <<Sign(a[1]) * a[2], Abs(a[1])>>

\* f64 division
SDiv(a, b) == SMul(a, SRecip(b))

\* a ^ i for an integer i >= 0, by repeated multiplication
RECURSIVE SPowNat(_, _)
SPowNat(a, i) == IF i = 0 THEN One ELSE SMul(a, SPowNat(a, i - 1))

\* f64::powf(a, p) for an integral exponent p: pow(x, 0) = 1 for every x
\* (NaN included), pow(0, negative) = inf, pow(inf, negative) = 0
SPowf(a, p) ==
    IF p[1] = 0 THEN One
    ELSE IF p[1] > 0 THEN SPowNat(a, p[1])
    ELSE SRecip(SPowNat(a, -p[1]))

\* f64::sin and f64::cos where the result is exact: at 0, and NaN at the
\* non-finite arguments
TrigArg(a) == a = Zero \/ ~IsFinite(a)
SSin(a) == IF a = Zero THEN Zero ELSE NaN
SCos(a) == IF a = Zero THEN One ELSE NaN

\* f64::partial_cmp: None when either side is NaN
SPartialCmp(a, b) ==
    IF IsNaN(a) \/ IsNaN(b) THEN "None"
    ELSE LET ca == IF IsInf(a) THEN a[1] ELSE 0
             cb == IF IsInf(b) THEN b[1] ELSE 0
             l == IF ca # cb \/ IsInf(a) THEN ca ELSE a[1] * b[2]
             r == IF ca # cb \/ IsInf(a) THEN cb ELSE b[1] * a[2]
         IN IF l < r THEN "Less" ELSE IF l > r THEN "Greater" ELSE "Equal"

\* ------------------------------------------------------------- the struct
\* make_dual! { SampleXYZ: f64, x, y, z }
Axes == {"x", "y", "z"}

\* struct $name { real, eps_x, eps_y, eps_z }
Dual(r, e) == [real |-> r, eps |-> e]

\* From<$inner>::from(real): every eps_$comp is 0.
From(real) == Dual(real, [i \in Axes |-> Zero])

\* Mutant of EpsAt: the derivative is written to every slot.
EpsAt_all(comp, real, e) == Dual(real, [i \in Axes |-> e])

\* $name::eps_$comp(real, eps): Self { eps_$comp: eps, .. Self::from(real) }
EpsAt(comp, real, e) ==
    Dual(From(real).real, [i \in Axes |-> IF i = comp THEN e ELSE From(real).eps[i]])

\* $name::$comp(real): Self::eps_$comp(real, 1.)
Var(comp, real) == EpsAt(comp, real, One)

\* self.d_d$comp(): self.eps_$comp
d_d(self, comp) == self.eps[comp]

\* Mutant of partial_cmp: a derived, field-by-field ordering.
partial_cmp_fields(self, other) ==
    IF SPartialCmp(self.real, other.real) # "Equal"
    THEN SPartialCmp(self.real, other.real)
    ELSE SPartialCmp(self.eps["x"], other.eps["x"])

\* PartialOrd::partial_cmp(&self, &other)
partial_cmp(self, other) == SPartialCmp(self.real, other.real)

\* ------------------------------------------------- elementary functions
\* Mutant of powf: the factor is taken from the new real part.
powf_new_real(self, pow) ==
    Dual(SPowf(self.real, pow),
         [i \in Axes |->
            SMul(SMul(self.eps[i], pow), SPowf(SPowf(self.real, pow), SSub(pow, One)))])

powf(self, pow) ==
    Dual(SPowf(self.real, pow),
         [i \in Axes |-> SMul(SMul(self.eps[i], pow), SPowf(self.real, SSub(pow, One)))])

invert(self) == powf(self, IntS(-1))

\* Mutant of sin: the slots are scaled by sin(real), not by cos(real).
sin_no_cos(self) ==
    Dual(SSin(self.real), [i \in Axes |-> SMul(self.eps[i], SSin(self.real))])

sin(self) ==
    LET r == SSin(self.real)
        dr == SCos(self.real)
    IN Dual(r, [i \in Axes |-> SMul(self.eps[i], dr)])

cos(self) ==
    LET r == SCos(self.real)
        dr == SNeg(SSin(self.real))
    IN Dual(r, [i \in Axes |-> SMul(self.eps[i], dr)])

\* ------------------------------------------------------------ arithmetic
\* Mutant of add_scalar: the scalar is added to every field.
add_scalar_all(self, other) ==
    Dual(SAdd(self.real, other), [i \in Axes |-> SAdd(self.eps[i], other)])

\* Add<$inner> for $name: only the real part changes
add_scalar(self, other) == Dual(SAdd(self.real, other), self.eps)

\* Mutant of add: only the real parts are added.
add_real_only(self, other) == Dual(SAdd(self.real, other.real), self.eps)

\* Add<$name> for $name
add(self, other) ==
    Dual(SAdd(self.real, other.real), [i \in Axes |-> SAdd(self.eps[i], other.eps[i])])

\* Mutant of mul_scalar: only the real part is scaled.
mul_scalar_real_only(self, other) == Dual(SMul(self.real, other), self.eps)

\* Mul<$inner> for $name
mul_scalar(self, other) ==
    Dual(SMul(self.real, other), [i \in Axes |-> SMul(self.eps[i], other)])

\* Neg for $name: self * -1.
neg(self) == mul_scalar(self, IntS(-1))

\* Mutant of mul: the second term uses the product, the updated real part.
mul_new_real(self, other) ==
    Dual(SMul(self.real, other.real),
         [i \in Axes |->
            SAdd(SMul(self.eps[i], other.real),
                 SMul(other.eps[i], SMul(self.real, other.real)))])

\* Mul<$name> for $name
mul(self, other) ==
    Dual(SMul(self.real, other.real),
         [i \in Axes |-> SAdd(SMul(self.eps[i], other.real), SMul(other.eps[i], self.real))])

\* Div<$name> for $name: self * other.invert()
div(self, other) == mul(self, invert(other))

\* Sub<$inner> for $name: self + -other
sub_scalar(self, other) == add_scalar(self, SNeg(other))

\* Sub<$name> for $name: self + -other
sub(self, other) == add(self, neg(other))

\* Div<f64> for $name: self * (1./other)
div_scalar(self, other) == mul_scalar(self, SDiv(One, other))

\* self.sin() / self.cos()
tan(self) == div(sin(self), cos(self))

\* impl_reverse!: $inner op $name is <$name as op>::fn(From::from(self), other)
scalar_add(self, other) == add(From(self), other)
scalar_sub(self, other) == sub(From(self), other)
scalar_mul(self, other) == mul(From(self), other)
scalar_div(self, other) == div(From(self), other)

\* ------------------------------------------------------------------ inputs
IntIn == {IntS(i) : i \in -MaxIn .. MaxIn}

\* every kind of f64 a caller can pass
ScalarIn == IntIn \cup {PInf, NInf, NaN}

\* exponents passed to powf
ExpIn == {IntS(i) : i \in -MaxExp .. MaxExp}

\* derivative slots of the struct literals a caller writes (the fields are pub)
EpsIn == {Zero, One, IntS(-MaxIn)}

DualIn == {Dual(r, e) : r \in ScalarIn, e \in [Axes -> EpsIn]}

\* the same for the operand `other`, with a non-finite slot among them
OtherIn == {Dual(r, e) : r \in ScalarIn, e \in [Axes -> {Zero, One, PInf}]}

\* values a caller obtains from the constructors with unit or zero seed
SeedIn == {From(r) : r \in IntIn} \cup {Var(a, r) : a \in Axes, r \in IntIn}

IsFiniteDual(d) == IsFinite(d.real) /\ \A i \in Axes : IsFinite(d.eps[i])

NoDual == From(Zero)

\* ------------------------------------------------------------------- state
VARIABLES
    op,      \* the call last made ("init": none yet)
    axis,    \* the $comp of the constructor or extractor called
    u0,      \* self before the call
    u,       \* self after the call (changed by the compound assignments only)
    v,       \* the dual operand `other`
    w,       \* a third dual value (distributivity)
    k,       \* the scalar operand (`other: $inner`, `real`)
    k2,      \* the second scalar argument (`pow`, `eps_$comp`)
    out,     \* the value returned
    out2,    \* the value the test compares `out` with
    sres,    \* the scalar returned by an extractor
    ord,     \* the Option<Ordering> returned by partial_cmp
    seeded,  \* the axes at which the value being built was seeded
    taint,   \* what was not finite while building: "input" (a constant, seed or
             \* scalar), "real" (a result's real part), "factor" (a power-rule factor)
    steps    \* the number of operations applied to the value being built

vars == <<op, axis, u0, u, v, w, k, k2, out, out2, sres, ord, seeded, taint, steps>>

Init ==
    /\ op = "init"
    /\ axis = "none"
    /\ u \in DualIn
    /\ u0 = u
    /\ v = NoDual
    /\ w = NoDual
    /\ k = Zero
    /\ k2 = Zero
    /\ out = NoDual
    /\ out2 = NoDual
    /\ sres = Zero
    /\ ord = "n/a"
    /\ seeded = {}
    /\ taint = {}
    /\ steps = 0

\* One call on `u`: the arguments and the results are recorded.
Call(name, ax, self1, b, c, s, s2, r1, r2) ==
    /\ op' = name
    /\ axis' = ax
    /\ u0' = u
    /\ u' = self1
    /\ v' = b
    /\ w' = c
    /\ k' = s
    /\ k2' = s2
    /\ out' = r1
    /\ out2' = r2
    /\ UNCHANGED <<sres, ord, seeded, taint, steps>>

\* ------------------------------------------------ constructors, extractors
CallFrom ==
    /\ op = "init"
    /\ \E r \in ScalarIn :
        Call("from", "none", u, NoDual, NoDual, r, Zero, From(r), NoDual)

CallEps ==
    /\ op = "init"
    /\ \E a \in Axes, r \in ScalarIn, e \in ScalarIn :
        Call("eps", a, u, NoDual, NoDual, r, e, EpsAt(a, r, e), NoDual)

CallVar ==
    /\ op = "init"
    /\ \E a \in Axes, r \in ScalarIn :
        Call("var", a, u, NoDual, NoDual, r, Zero, Var(a, r), NoDual)

CallDd ==
    /\ op = "init"
    /\ \E a \in Axes :
        /\ op' = "d_d"
        /\ axis' = a
        /\ sres' = d_d(u, a)
    /\ UNCHANGED <<u0, u, v, w, k, k2, out, out2, ord, seeded, taint, steps>>

CallPartialCmp ==
    /\ op = "init"
    /\ \E b \in OtherIn :
        /\ op' = "partial_cmp"
        /\ v' = b
        /\ ord' = partial_cmp(u, b)
    /\ UNCHANGED <<axis, u0, u, w, k, k2, out, out2, sres, seeded, taint, steps>>

\* ---------------------------------------------------- elementary functions
CallPowf ==
    /\ op = "init"
    /\ \E p \in ExpIn :
        Call("powf", "none", u, NoDual, NoDual, Zero, p, powf(u, p), NoDual)

CallInvert ==
    /\ op = "init"
    /\ Call("invert", "none", u, NoDual, NoDual, Zero, Zero, invert(u), NoDual)

CallSin ==
    /\ op = "init"
    /\ TrigArg(u.real)
    /\ Call("sin", "none", u, NoDual, NoDual, Zero, Zero, sin(u), NoDual)

CallCos ==
    /\ op = "init"
    /\ TrigArg(u.real)
    /\ Call("cos", "none", u, NoDual, NoDual, Zero, Zero, cos(u), NoDual)

CallTan ==
    /\ op = "init"
    /\ TrigArg(u.real)
    /\ Call("tan", "none", u, NoDual, NoDual, Zero, Zero, tan(u), NoDual)

\* ------------------------------------------------------ dual op dual
CallNeg ==
    /\ op = "init"
    /\ Call("neg", "none", u, NoDual, NoDual, Zero, Zero, neg(u), NoDual)

CallAdd ==
    /\ op = "init"
    /\ \E b \in OtherIn :
        Call("add", "none", u, b, NoDual, Zero, Zero, add(u, b), NoDual)

CallSub ==
    /\ op = "init"
    /\ \E b \in OtherIn :
        Call("sub", "none", u, b, NoDual, Zero, Zero, sub(u, b), NoDual)

CallMul ==
    /\ op = "init"
    /\ \E b \in OtherIn :
        Call("mul", "none", u, b, NoDual, Zero, Zero, mul(u, b), NoDual)

CallDiv ==
    /\ op = "init"
    /\ \E b \in OtherIn :
        Call("div", "none", u, b, NoDual, Zero, Zero, div(u, b), NoDual)

\* ------------------------------------------------------ dual op scalar
CallAddScalar ==
    /\ op = "init"
    /\ \E s \in ScalarIn :
        Call("add_scalar", "none", u, NoDual, NoDual, s, Zero, add_scalar(u, s), NoDual)

CallSubScalar ==
    /\ op = "init"
    /\ \E s \in ScalarIn :
        Call("sub_scalar", "none", u, NoDual, NoDual, s, Zero, sub_scalar(u, s), NoDual)

CallMulScalar ==
    /\ op = "init"
    /\ \E s \in ScalarIn :
        Call("mul_scalar", "none", u, NoDual, NoDual, s, Zero, mul_scalar(u, s), NoDual)

CallDivScalar ==
    /\ op = "init"
    /\ \E s \in ScalarIn :
        Call("div_scalar", "none", u, NoDual, NoDual, s, Zero, div_scalar(u, s), NoDual)

\* ------------------------------------------------------ scalar op dual
CallScalarAdd ==
    /\ op = "init"
    /\ \E s \in ScalarIn :
        Call("scalar_add", "none", u, NoDual, NoDual, s, Zero, scalar_add(s, u), NoDual)

CallScalarSub ==
    /\ op = "init"
    /\ \E s \in ScalarIn :
        Call("scalar_sub", "none", u, NoDual, NoDual, s, Zero, scalar_sub(s, u), NoDual)

CallScalarMul ==
    /\ op = "init"
    /\ \E s \in ScalarIn :
        Call("scalar_mul", "none", u, NoDual, NoDual, s, Zero, scalar_mul(s, u), NoDual)

CallScalarDiv ==
    /\ op = "init"
    /\ \E s \in ScalarIn :
        Call("scalar_div", "none", u, NoDual, NoDual, s, Zero, scalar_div(s, u), NoDual)

\* ------------------------------------------- impl_inplace!: *self = self op other
AddAssign ==
    /\ op = "init"
    /\ \E b \in OtherIn :
        Call("add_assign", "none", add(u, b), b, NoDual, Zero, Zero, NoDual, NoDual)

\* Mutant of SubAssign: the operands are swapped.
SubAssign_swapped ==
    /\ op = "init"
    /\ \E b \in OtherIn :
        Call("sub_assign", "none", sub(b, u), b, NoDual, Zero, Zero, NoDual, NoDual)

SubAssign ==
    /\ op = "init"
    /\ \E b \in OtherIn :
        Call("sub_assign", "none", sub(u, b), b, NoDual, Zero, Zero, NoDual, NoDual)

MulAssign ==
    /\ op = "init"
    /\ \E b \in OtherIn :
        Call("mul_assign", "none", mul(u, b), b, NoDual, Zero, Zero, NoDual, NoDual)

DivAssign ==
    /\ op = "init"
    /\ \E b \in OtherIn :
        Call("div_assign", "none", div(u, b), b, NoDual, Zero, Zero, NoDual, NoDual)

AddAssignScalar ==
    /\ op = "init"
    /\ \E s \in ScalarIn :
        Call("add_assign_scalar", "none", add_scalar(u, s), NoDual, NoDual, s, Zero, NoDual, NoDual)

SubAssignScalar ==
    /\ op = "init"
    /\ \E s \in ScalarIn :
        Call("sub_assign_scalar", "none", sub_scalar(u, s), NoDual, NoDual, s, Zero, NoDual, NoDual)

MulAssignScalar ==
    /\ op = "init"
    /\ \E s \in ScalarIn :
        Call("mul_assign_scalar", "none", mul_scalar(u, s), NoDual, NoDual, s, Zero, NoDual, NoDual)

DivAssignScalar ==
    /\ op = "init"
    /\ \E s \in ScalarIn :
        Call("div_assign_scalar", "none", div_scalar(u, s), NoDual, NoDual, s, Zero, NoDual, NoDual)

\* ------------------------------------------------- tests::test_dist
\* (a + b) * c against a * c + b * c, a being `u`
CallDist ==
    /\ op = "init"
    /\ \E b \in SeedIn, c \in SeedIn :
        Call("dist", "none", u, b, c, Zero, Zero,
             mul(add(u, b), c), add(mul(u, c), mul(b, c)))

\* (a - b) * c against a * c - b * c
CallDistSub ==
    /\ op = "init"
    /\ \E b \in SeedIn, c \in SeedIn :
        Call("dist_sub", "none", u, b, c, Zero, Zero,
             mul(sub(u, b), c), sub(mul(u, c), mul(b, c)))

\* (x + 1.) * (x + 1.) against x * x + 2. * x + 1.
TestDistSquare ==
    /\ op = "init"
    /\ u = Var("x", u.real)
    /\ Call("test_dist_square", "x", u, NoDual, NoDual, u.real, Zero,
            mul(add_scalar(u, One), add_scalar(u, One)),
            add_scalar(add(mul(u, u), scalar_mul(IntS(2), u)), One))

\* (x + 1.) * (x + 1.) against (x + 1.).powf(2.)
TestDistPowf ==
    /\ op = "init"
    /\ u = Var("x", u.real)
    /\ Call("test_dist_powf", "x", u, NoDual, NoDual, u.real, Zero,
            mul(add_scalar(u, One), add_scalar(u, One)),
            powf(add_scalar(u, One), IntS(2)))

\* (x + 1.) * (x - 1.) against x * x - 1.
TestDistDiff ==
    /\ op = "init"
    /\ u = Var("x", u.real)
    /\ Call("test_dist_diff", "x", u, NoDual, NoDual, u.real, Zero,
            mul(add_scalar(u, One), sub_scalar(u, One)),
            sub_scalar(mul(u, u), One))

Next ==
    \/ CallFrom \/ CallEps \/ CallVar \/ CallDd \/ CallPartialCmp
    \/ CallPowf \/ CallInvert \/ CallSin \/ CallCos \/ CallTan
    \/ CallNeg \/ CallAdd \/ CallSub \/ CallMul \/ CallDiv
    \/ CallAddScalar \/ CallSubScalar \/ CallMulScalar \/ CallDivScalar
    \/ CallScalarAdd \/ CallScalarSub \/ CallScalarMul \/ CallScalarDiv

\* One call of a constructor, an operator or an elementary function.
Spec == Init /\ [][Next]_vars

NextAssign ==
    \/ AddAssign \/ SubAssign \/ MulAssign \/ DivAssign
    \/ AddAssignScalar \/ SubAssignScalar \/ MulAssignScalar \/ DivAssignScalar

\* One compound assignment.
SpecAssign == Init /\ [][NextAssign]_vars

NextDist ==
    \/ CallDist \/ CallDistSub \/ TestDistSquare \/ TestDistPowf \/ TestDistDiff

\* One comparison of the two sides of a distributive law.
SpecDist == Init /\ [][NextDist]_vars

\* ------------------------------------------------- building an expression
\* A caller builds a value step by step from constants and seeded variables;
\* `u` is the value built so far, `steps` the number of operations applied.
BuildIn == {Zero, One, IntS(-2), PInf, NaN}

\* what the expression starts from: a constant, or a variable seeded at one axis
Leaves == {[val |-> From(r), at |-> {}] : r \in BuildIn}
          \cup {[val |-> Var(a, r), at |-> {a}] : a \in Axes, r \in BuildIn}
          \cup {[val |-> EpsAt(a, r, IntS(2)), at |-> {a}] : a \in Axes, r \in BuildIn}

\* what the value built is combined with
Operands == {[val |-> From(r), at |-> {}] : r \in {Zero, IntS(2), PInf}}
            \cup {[val |-> Var(a, r), at |-> {a}] : a \in Axes, r \in {Zero, IntS(2)}}

\* the bare scalars the value built is combined with
BuildScalars == {IntS(2), PInf}

\* the model's range for the value an operation is applied to
InRange(d) ==
    /\ Abs(d.real[1]) <= MaxMag /\ d.real[2] <= MaxMag
    /\ \A i \in Axes : Abs(d.eps[i][1]) <= MaxMag /\ d.eps[i][2] <= MaxMag

InputTaint(a) == IF IsFinite(a) THEN {} ELSE {"input"}

InitBuild ==
    /\ op = "build"
    /\ axis = "none"
    /\ \E l \in Leaves :
        /\ u = l.val
        /\ seeded = l.at
        /\ taint = IF IsFinite(l.val.real) THEN {} ELSE {"input"}
    /\ steps = 0
    /\ u0 = u
    /\ v = NoDual
    /\ w = NoDual
    /\ k = Zero
    /\ k2 = Zero
    /\ out = NoDual
    /\ out2 = NoDual
    /\ sres = Zero
    /\ ord = "n/a"

\* `u` becomes `r`, computed from `u` and an operand seeded at `at`; `t` is
\* what the operation met that was not finite.
Step(r, at, t) ==
    /\ u' = r
    /\ seeded' = seeded \cup at
    /\ taint' = taint \cup t \cup (IF IsFinite(r.real) THEN {} ELSE {"real"})
    /\ steps' = steps + 1
    /\ UNCHANGED <<op, axis, u0, v, w, k, k2, out, out2, sres, ord>>

BuildAdd ==
    /\ steps < MaxDepth
    /\ InRange(u)
    /\ \E l \in Operands : Step(add(u, l.val), l.at, InputTaint(l.val.real))

BuildSub ==
    /\ steps < MaxDepth
    /\ InRange(u)
    /\ \E l \in Operands : Step(sub(u, l.val), l.at, InputTaint(l.val.real))

BuildMul ==
    /\ steps < MaxDepth
    /\ InRange(u)
    /\ \E l \in Operands : Step(mul(u, l.val), l.at, InputTaint(l.val.real))

BuildDouble ==
    /\ steps < MaxDepth
    /\ InRange(u)
    /\ Step(add(u, u), {}, {})

BuildSquare ==
    /\ steps < MaxDepth
    /\ InRange(u)
    /\ Step(mul(u, u), {}, {})

BuildNeg ==
    /\ steps < MaxDepth
    /\ InRange(u)
    /\ Step(neg(u), {}, {})

\* powf with an exponent 0, 1, 2, ...; the power-rule factor is real^(pow - 1)
BuildPowf ==
    /\ steps < MaxDepth
    /\ InRange(u)
    /\ \E i \in 0 .. MaxExp :
        Step(powf(u, IntS(i)), {},
             IF IsFinite(SPowf(u.real, SSub(IntS(i), One))) THEN {} ELSE {"factor"})

BuildAddScalar ==
    /\ steps < MaxDepth
    /\ InRange(u)
    /\ \E s \in BuildScalars : Step(add_scalar(u, s), {}, InputTaint(s))

BuildSubScalar ==
    /\ steps < MaxDepth
    /\ InRange(u)
    /\ \E s \in BuildScalars : Step(sub_scalar(u, s), {}, InputTaint(s))

BuildMulScalar ==
    /\ steps < MaxDepth
    /\ InRange(u)
    /\ \E s \in BuildScalars : Step(mul_scalar(u, s), {}, InputTaint(s))

BuildScalarAdd ==
    /\ steps < MaxDepth
    /\ InRange(u)
    /\ \E s \in BuildScalars : Step(scalar_add(s, u), {}, InputTaint(s))

BuildScalarSub ==
    /\ steps < MaxDepth
    /\ InRange(u)
    /\ \E s \in BuildScalars : Step(scalar_sub(s, u), {}, InputTaint(s))

BuildScalarMul ==
    /\ steps < MaxDepth
    /\ InRange(u)
    /\ \E s \in BuildScalars : Step(scalar_mul(s, u), {}, InputTaint(s))

NextBuild ==
    \/ BuildAdd \/ BuildSub \/ BuildMul
    \/ BuildDouble \/ BuildSquare \/ BuildNeg \/ BuildPowf
    \/ BuildAddScalar \/ BuildSubScalar \/ BuildMulScalar
    \/ BuildScalarAdd \/ BuildScalarSub \/ BuildScalarMul

\* Any sequence of at most MaxDepth operations on the value being built.
SpecBuild == InitBuild /\ [][NextBuild]_vars

\* ================================================================= claims
\* Values are compared field by field, NaN being the same value as NaN.
\* Every slot of d other than comp is 0.
OthersZero(d, comp) == \A i \in Axes \ {comp} : d.eps[i] = Zero

\* ---------------------------------------------------------------------- C1
\* C1 as stated: u * v has real u.real * v.real and, at every axis i, slot
\* u.eps_i * v.real + v.eps_i * u.real, from the operands' original real
\* parts; and for x = $comp(v), for every v, x * x has derivative 2 * v at
\* that axis and 0 in every other slot.
C1_ProductRule_EveryV ==
    op = "mul" =>
        /\ out.real = SMul(u0.real, v.real)
        /\ \A i \in Axes :
            out.eps[i] = SAdd(SMul(u0.eps[i], v.real), SMul(v.eps[i], u0.real))
        /\ \A a \in Axes :
            (u0 = Var(a, u0.real) /\ v = u0) =>
                /\ d_d(out, a) = SMul(IntS(2), u0.real)
                /\ OthersZero(out, a)

\* C1 amended: the product rule holds per axis for all u, v; for
\* x = $comp(v) with v finite, x * x has derivative 2 * v at that axis and 0
\* in every other slot (for v infinite or NaN the other slots are NaN).
C1_ProductRule ==
    op = "mul" =>
        /\ out.real = SMul(u0.real, v.real)
        /\ \A i \in Axes :
            out.eps[i] = SAdd(SMul(u0.eps[i], v.real), SMul(v.eps[i], u0.real))
        /\ \A a \in Axes :
            (u0 = Var(a, u0.real) /\ v = u0 /\ IsFinite(u0.real)) =>
                /\ d_d(out, a) = SMul(IntS(2), u0.real)
                /\ OthersZero(out, a)

C1_Witness ==
    /\ op = "mul"
    /\ u0 = Var("x", IntS(2))
    /\ v = u0
    /\ out = EpsAt("x", IntS(4), IntS(4))

C3_Constructors ==
    /\ op = "eps" =>
        /\ out.real = k
        /\ out.eps[axis] = k2
        /\ OthersZero(out, axis)
    /\ op = "var" =>
        /\ out = EpsAt(axis, k, One)
        /\ out.real = k
        /\ d_d(out, axis) = One
        /\ \A b \in Axes \ {axis} : d_d(out, b) = Zero
    /\ op = "from" =>
        /\ out.real = k
        /\ \A i \in Axes : out.eps[i] = Zero

C3_Witness ==
    /\ op = "eps"
    /\ axis = "y"
    /\ k = IntS(-1)
    /\ k2 = IntS(2)
    /\ out = Dual(IntS(-1), [i \in Axes |-> IF i = "y" THEN IntS(2) ELSE Zero])

\* ---------------------------------------------------------------------- C4
\* C4 as stated: v.powf(p) has real v.real^p and, at every axis i, slot
\* v.eps_i * p * v.real^(p-1), the factor from v's original real part; and
\* for x = $comp(v), for every v, x.powf(2) has derivative 2 * v at that
\* axis and 0 in every other slot.
C4_PowerRule_EveryV ==
    op = "powf" =>
        /\ out.real = SPowf(u0.real, k2)
        /\ \A i \in Axes :
            out.eps[i] = SMul(SMul(u0.eps[i], k2), SPowf(u0.real, SSub(k2, One)))
        /\ \A a \in Axes :
            (u0 = Var(a, u0.real) /\ k2 = IntS(2)) =>
                /\ d_d(out, a) = SMul(IntS(2), u0.real)
                /\ OthersZero(out, a)

\* C4 amended: the power rule holds per axis for all v and p; for
\* x = $comp(v) with v finite, x.powf(2) has derivative 2 * v at that axis
\* and 0 in every other slot (for v infinite or NaN the other slots are NaN).
C4_PowerRule ==
    op = "powf" =>
        /\ out.real = SPowf(u0.real, k2)
        /\ \A i \in Axes :
            out.eps[i] = SMul(SMul(u0.eps[i], k2), SPowf(u0.real, SSub(k2, One)))
        /\ \A a \in Axes :
            (u0 = Var(a, u0.real) /\ k2 = IntS(2) /\ IsFinite(u0.real)) =>
                /\ d_d(out, a) = SMul(IntS(2), u0.real)
                /\ OthersZero(out, a)

\* x(-2.).powf(2.) is { real 4, eps_x -4, eps_y 0, eps_z 0 }
C4_Witness ==
    /\ op = "powf"
    /\ u0 = Var("x", IntS(-2))
    /\ k2 = IntS(2)
    /\ out = EpsAt("x", IntS(4), IntS(-4))

\* ---------------------------------------------------------------------- C5
\* C5: (f + g).real is f.real + g.real and every slot of f + g is the sum of
\* the slots of f and g; hence from(a) + from(b) is from(a + b), every slot 0.
C5_SumRule ==
    op = "add" =>
        /\ out.real = SAdd(u0.real, v.real)
        /\ \A i \in Axes : d_d(out, i) = SAdd(d_d(u0, i), d_d(v, i))
        /\ (u0 = From(u0.real) /\ v = From(v.real)) =>
            /\ out = From(SAdd(u0.real, v.real))
            /\ \A i \in Axes : out.eps[i] = Zero

C5_Witness ==
    /\ op = "add"
    /\ u0 = From(One)
    /\ v = From(IntS(2))
    /\ out = From(IntS(3))

\* ---------------------------------------------------------------------- C6
\* C6: after `v op= k`, for op= in += -= *= /= and k a scalar or a value of
\* the family, v is the out-of-place `v op k` computed from v's value before
\* the assignment (u0), real part and every slot; the operand, passed by
\* value, is the one recorded.
C6_CompoundAssign ==
    /\ op = "add_assign" => u = add(u0, v)
    /\ op = "sub_assign" => u = sub(u0, v)
    /\ op = "mul_assign" => u = mul(u0, v)
    /\ op = "div_assign" => u = div(u0, v)
    /\ op = "add_assign_scalar" => u = add_scalar(u0, k)
    /\ op = "sub_assign_scalar" => u = sub_scalar(u0, k)
    /\ op = "mul_assign_scalar" => u = mul_scalar(u0, k)
    /\ op = "div_assign_scalar" => u = div_scalar(u0, k)

\* v = x(2.); v -= y(1.) leaves v = { real 1, eps_x 1, eps_y -1, eps_z 0 }
C6_Witness ==
    /\ op = "sub_assign"
    /\ u0 = Var("x", IntS(2))
    /\ v = Var("y", One)
    /\ u = Dual(One, [i \in Axes |-> IF i = "x" THEN One ELSE IF i = "y" THEN IntS(-1) ELSE Zero])

\* ---------------------------------------------------------------------- C7
\* C7: partial_cmp(a, b) is the scalar comparison of a.real with b.real
\* whatever the derivative slots are: equal real parts with different slots
\* compare as Equal, and changing only the slots of either side never
\* changes the result.
C7_OrderByReal ==
    op = "partial_cmp" =>
        /\ ord = SPartialCmp(u.real, v.real)
        /\ (u.real = v.real /\ ~IsNaN(u.real)) => ord = "Equal"
        /\ \A e \in [Axes -> EpsIn] :
            /\ partial_cmp(Dual(u.real, e), v) = ord
            /\ partial_cmp(u, Dual(v.real, e)) = ord

C7_Witness ==
    /\ op = "partial_cmp"
    /\ u.real = v.real
    /\ u.eps["x"] = IntS(-MaxIn)
    /\ v.eps["x"] = One
    /\ ord = "Equal"

\* ---------------------------------------------------------------------- C8
\* C8: for x = x(0.), with sin(0) = 0 and cos(0) = 1, x.sin() is
\* eps_x(0, 1), x.cos() is eps_x(1, 0) and x.tan() is eps_x(0, 1); every
\* other slot is 0 in the three results.
C8_TrigAtZero ==
    u0 = Var("x", Zero) =>
        /\ op = "sin" => out = EpsAt("x", Zero, One) /\ OthersZero(out, "x")
        /\ op = "cos" => out = EpsAt("x", One, Zero) /\ OthersZero(out, "x")
        /\ op = "tan" => out = EpsAt("x", Zero, One) /\ OthersZero(out, "x")

C8_Witness ==
    /\ op = "tan"
    /\ u0 = Var("x", Zero)
    /\ out.real = Zero
    /\ d_d(out, "x") = One

====
